---------------------------- MODULE Spec2Model ----------------------------
(***************************************************************************)
(* Model of src/autoqa/reportportal_handler.py: the upload of one test's   *)
(* trajectory (turn folders, screen recording, application logs) to the    *)
(* reporting backend.  The backend client and the filesystem are the       *)
(* environment: every backend call is recorded in `events` and may raise;  *)
(* every filesystem read returns a value drawn from a bounded set and may  *)
(* raise.  The program's state is the position of the running function and *)
(* its live local variables.                                               *)
(***************************************************************************)
EXTENDS Integers, Sequences, FiniteSets, TLC

VARIABLES
    entry,      \* the function of the module the caller invoked
    args,       \* the arguments of that call
    pc,         \* position in the code
    outcome,    \* of the caller's call: "running", "returned" or "raised"
    faults,     \* number of environment failures (raises) so far
    events,     \* every call made on the backend client, in order
    rp,         \* locals of upload_test_results_to_rp
    ex,         \* locals of extract_test_result_from_trajectory
    tf,         \* locals of upload_turn_folder
    jl          \* locals of upload_jan_logs

vars == <<entry, args, pc, outcome, faults, events, rp, ex, tf, jl>>

---------------------------------------------------------------------------
(* Bounds of the model *)

\* directory entries os.listdir(trajectory_dir) returns
MaxEntries == 2
\* files os.listdir(turn_path) returns
MaxFiles == 2
\* log files glob.glob returns
MaxLogs == 2
\* segments a response's content text is made of
MaxSegs == 2
\* calls of the environment that raise in one run
MaxFaults == 1

---------------------------------------------------------------------------
(* Names and Python's string order *)

\* every file and directory name of the model, in ascending order of Python's
\* string comparison (the order sorted() produces)
Lexical ==
    << "api_call_1_request.json", "api_call_1_response.json",
       "api_call_2_response.json", "final_response.json", "logs",
       "notes.txt", "screenshot_1.png", "turn_1", "turn_10", "turn_2",
       "turn_log.txt" >>

Rank(name) == CHOOSE i \in 1..Len(Lexical) : Lexical[i] = name

\* what a trajectory directory may hold, and which of it is a directory
EntryNames == {"logs", "turn_1", "turn_10", "turn_2", "turn_log.txt"}
isdir(name) == name \in {"logs", "turn_1", "turn_10", "turn_2"}

\* what a turn directory may hold
FileNames ==
    {"api_call_1_request.json", "api_call_1_response.json",
     "api_call_2_response.json", "final_response.json", "notes.txt",
     "screenshot_1.png"}

\* str.startswith and str.endswith on the names of the model
startswith(name, prefix) ==
    CASE prefix = "turn_" ->
           name \in {"turn_1", "turn_10", "turn_2", "turn_log.txt"}
      [] prefix = "api_call_" ->
           name \in {"api_call_1_request.json", "api_call_1_response.json",
                     "api_call_2_response.json"}
      [] OTHER -> FALSE

endswith(name, suffix) ==
    CASE suffix = ".json" ->
           name \in {"api_call_1_request.json", "api_call_1_response.json",
                     "api_call_2_response.json", "final_response.json"}
      [] suffix = "_response.json" ->
           name \in {"api_call_1_response.json", "api_call_2_response.json",
                     "final_response.json"}
      [] suffix = ".png" -> name = "screenshot_1.png"
      [] OTHER -> FALSE

\* os.path.exists on the paths of the model
exists(path) == path \in {"traj", "rec.mp4"}

\* Python truthiness of a path argument (None and "" are false)
truthy(path) == path # ""

---------------------------------------------------------------------------
(* sorted() *)

RECURSIVE Insert(_, _)
Insert(s, x) ==
    IF s = <<>> THEN <<x>>
    ELSE IF Rank(x) < Rank(Head(s)) THEN <<x>> \o s
    ELSE <<Head(s)>> \o Insert(Tail(s), x)

\* sorted(list of names): insertion sort by Python's string order
RECURSIVE sorted(_)
sorted(s) == IF s = <<>> THEN <<>> ELSE Insert(sorted(Tail(s)), Head(s))

Range(s) == {s[i] : i \in 1..Len(s)}

\* the lists without repetition of at most n members of S
ListsOf(S, n) ==
    {s \in UNION {[1..k -> S] : k \in 0..n} :
        \A i, j \in 1..Len(s) : i # j => s[i] # s[j]}

\* os.listdir(trajectory_dir): the entries, in the order the filesystem
\* enumerates them
TrajectoryListings == ListsOf(EntryNames, MaxEntries)

\* os.listdir(turn_path)
TurnListings == ListsOf(FileNames, MaxFiles)

\* os.listdir(turn_path) of a turn that upload_test_results_to_rp uploads:
\* the runs of the whole upload draw each turn's files from this smaller set
RunTurnListings ==
    { <<>>, << "notes.txt" >>, << "api_call_1_response.json" >>,
      << "screenshot_1.png" >> }

---------------------------------------------------------------------------
(* The content text of a response and re.search *)

\* A text is a sequence of tokens: "{", "}", ":", " " (one whitespace
\* character), "result" (the key with its double quotes), "True", "False",
\* "true" (the JSON spelling) and "x" (any other text).
MarkerTrue == << "{", "result", ":", "True", "}" >>
MarkerFalse == << "{", "result", ":", "False", "}" >>

Segments ==
    { << "x" >>,
      MarkerTrue,
      MarkerFalse,
      << "{", " ", "result", " ", ":", " ", " ", "True", " ", "}" >>,
      << "{", "result", ":", "true", "}" >>,
      << "{", "result", ":", "True" >>,
      << "}" >> }

RECURSIVE Concat(_)
Concat(ss) == IF ss = <<>> THEN <<>> ELSE Head(ss) \o Concat(Tail(ss))

Texts == {Concat(ss) : ss \in UNION {[1..k -> Segments] : k \in 0..MaxSegs}}

\* A pattern is a sequence of items [tok, star]: the token, and whether it is
\* under a Kleene star.  r'\{\s*"result"\s*:\s*True\s*\}' and its False twin:
Lit(t) == [tok |-> t, star |-> FALSE]
Ws == [tok |-> " ", star |-> TRUE]
true_pattern ==
    << Lit("{"), Ws, Lit("result"), Ws, Lit(":"), Ws, Lit("True"), Ws, Lit("}") >>
false_pattern ==
    << Lit("{"), Ws, Lit("result"), Ws, Lit(":"), Ws, Lit("False"), Ws, Lit("}") >>

\* whether pattern[k..] matches a prefix of text[i..]
RECURSIVE MatchAt(_, _, _, _)
MatchAt(pattern, k, text, i) ==
    IF k > Len(pattern) THEN TRUE
    ELSE IF pattern[k].star
         THEN \/ MatchAt(pattern, k + 1, text, i)
              \/ /\ i <= Len(text)
                 /\ text[i] = pattern[k].tok
                 /\ MatchAt(pattern, k, text, i + 1)
         ELSE /\ i <= Len(text)
              /\ text[i] = pattern[k].tok
              /\ MatchAt(pattern, k + 1, text, i + 1)

\* re.search(pattern, text) is not None
re_search(pattern, text) ==
    \E i \in 1..(Len(text) + 1) : MatchAt(pattern, 1, text, i)

---------------------------------------------------------------------------
(* The JSON document of a response file, as far as the code looks into it *)

\* a member of data['response']['choices']: whether it has 'message', whether
\* the message has 'content', whether the content is a str, and its text
Choice(m, c, isstr, t) ==
    [has_message |-> m, has_content |-> c, is_str |-> isstr, text |-> t]

Choices ==
    { Choice(FALSE, FALSE, FALSE, <<>>),
      Choice(TRUE, FALSE, FALSE, <<>>),
      Choice(TRUE, TRUE, FALSE, <<>>) }
    \cup {Choice(TRUE, TRUE, TRUE, t) : t \in Texts}

\* the choices before the last one
EarlierChoices ==
    { <<>>, << Choice(TRUE, TRUE, TRUE, MarkerTrue) >>,
      << Choice(TRUE, TRUE, TRUE, MarkerFalse) >> }

Doc(r, c, chs) ==
    [parsed |-> TRUE, has_response |-> r, has_choices |-> c, choices |-> chs]

\* a file json.load cannot parse, or open cannot read
Malformed ==
    [parsed |-> FALSE, has_response |-> FALSE, has_choices |-> FALSE,
     choices |-> <<>>]

Documents ==
    { Malformed, Doc(FALSE, FALSE, <<>>), Doc(TRUE, FALSE, <<>>),
      Doc(TRUE, TRUE, <<>>) }
    \cup {Doc(TRUE, TRUE, pre \o <<c>>) : pre \in EarlierChoices, c \in Choices}

---------------------------------------------------------------------------
(* Application log files *)

\* 50 * 1024 * 1024, the size above which a log file is skipped
max_file_size == 50 * 1024 * 1024

\* the max_log_files upload_test_results_to_rp passes to upload_jan_logs
RunMaxLogFiles == 5

LogFileNames == << "app.log", "app.1.log", "app.2.log", "app.3.log" >>

\* glob.glob(pattern): the k-th path found, with what os.path.getmtime and
\* os.path.getsize say of it
LogListings ==
    UNION { { [k \in 1..n |-> [name |-> LogFileNames[k], mtime |-> f[k][1],
                                size |-> f[k][2]]] :
              f \in [1..n -> {1, 2} \X {1, max_file_size, max_file_size + 1}] } :
            n \in 0..MaxLogs }

\* glob.glob(pattern) in a run of upload_test_results_to_rp: no log file, a
\* small one or one over the limit
RunLogListings ==
    { <<>>,
      << [name |-> LogFileNames[1], mtime |-> 1, size |-> 1] >>,
      << [name |-> LogFileNames[1], mtime |-> 1, size |-> max_file_size + 1] >> }

\* get_jan_log_paths: the glob patterns of the platform
get_jan_log_paths(system) ==
    CASE system = "windows" -> << "%APPDATA%/Jan/data/logs/*.log" >>
      [] system = "darwin" ->
           << "~/Library/Application Support/Jan/data/logs/*.log" >>
      [] system = "linux" -> << "~/.local/share/Jan/data/logs/*.log" >>
      [] OTHER -> <<>>

\* list.sort(key=getmtime, reverse=True): stable, newest first
RECURSIVE InsertNewest(_, _)
InsertNewest(s, x) ==
    IF s = <<>> THEN <<x>>
    ELSE IF Head(s).mtime <= x.mtime THEN <<x>> \o s
    ELSE <<Head(s)>> \o InsertNewest(Tail(s), x)

RECURSIVE sort_by_mtime(_)
sort_by_mtime(s) ==
    IF s = <<>> THEN <<>> ELSE InsertNewest(sort_by_mtime(Tail(s)), Head(s))

\* s[:n]
Take(s, n) == SubSeq(s, 1, IF n < Len(s) THEN n ELSE Len(s))

---------------------------------------------------------------------------
(* The backend client *)

\* one call on the client: start_test_item (kind: the item type, name: the
\* item's name), log (kind: the level, tag: which message, name: the file
\* the message names, att: the attachment's mime) or finish_test_item (kind:
\* the status).  ok: the call returned; otherwise it raised.
Ev(op, item, kind, tag, name, att, ok) ==
    [op |-> op, item |-> item, kind |-> kind, tag |-> tag, name |-> name,
     att |-> att, ok |-> ok]

\* the item a caller of upload_turn_folder or upload_jan_logs passes
CallerItem == 1

\* the id start_test_item returns: fresh for every item
NewItemId ==
    2 + Cardinality({i \in 1..Len(events) :
                        events[i].op = "start_test_item" /\ events[i].ok})

\* whether the environment may still raise
CanRaise == IF faults < MaxFaults THEN {FALSE, TRUE} ELSE {FALSE}

Call(ev, raised) ==
    /\ events' = Append(events, [ev EXCEPT !.ok = ~raised])
    /\ faults' = faults + (IF raised THEN 1 ELSE 0)

start_test_item(kind, name, raised) ==
    Call(Ev("start_test_item", IF raised THEN 0 ELSE NewItemId, kind, "", name,
            "", TRUE), raised)

log(item, level, tag, name, att, raised) ==
    Call(Ev("log", item, level, tag, name, att, TRUE), raised)

finish_test_item(item, status, raised) ==
    Call(Ev("finish_test_item", item, status, "", "", "", TRUE), raised)

\* a failure of the filesystem: no call on the client
Fault == faults' = faults + 1 /\ UNCHANGED events

---------------------------------------------------------------------------
(* Locals *)

NoRp ==
    [final_status |-> "", status_message |-> "", test_item_id |-> 0,
     turn_folders |-> <<>>, todo |-> <<>>]

NoEx ==
    [listing |-> <<>>, last_turn |-> "", files |-> <<>>,
     response_files |-> <<>>, last_response_file |-> "", data |-> Malformed,
     result |-> FALSE]

NoTf ==
    [test_item_id |-> 0, turn_name |-> "", force_fail |-> FALSE,
     step_item_id |-> 0, listing |-> <<>>, i |-> 0, uploaded |-> FALSE,
     step_has_errors |-> FALSE]

NoJl ==
    [test_item_id |-> 0, max_log_files |-> 0, all_log_files |-> <<>>,
     to_upload |-> <<>>, i |-> 0]

NoArgs ==
    [trajectory_dir |-> "", force_stopped |-> FALSE, video_path |-> "",
     turn_name |-> "", force_fail |-> FALSE, max_log_files |-> 0,
     system |-> "linux"]

Systems == {"windows", "darwin", "linux", "freebsd"}

---------------------------------------------------------------------------
(* The call *)

Init ==
    /\ outcome = "running"
    /\ faults = 0
    /\ events = <<>>
    /\ rp = NoRp
    /\ ex = NoEx
    /\ \/ /\ entry = "upload_test_results_to_rp"
          /\ pc = "rp_entry"
          /\ args \in {[NoArgs EXCEPT !.trajectory_dir = d, !.force_stopped = f,
                                      !.video_path = v] :
                         d \in {"", "missing", "traj"}, f \in BOOLEAN,
                         v \in {"", "gone.mp4", "rec.mp4"}}
          /\ tf = NoTf
          /\ jl = NoJl
       \/ /\ entry = "extract_test_result_from_trajectory"
          /\ pc = "ex_entry"
          /\ args \in {[NoArgs EXCEPT !.trajectory_dir = d] :
                         d \in {"", "missing", "traj"}}
          /\ tf = NoTf
          /\ jl = NoJl
       \/ /\ entry = "upload_turn_folder"
          /\ pc = "tf_start"
          /\ args \in {[NoArgs EXCEPT !.turn_name = "turn_1", !.force_fail = f] :
                         f \in BOOLEAN}
          /\ tf = [NoTf EXCEPT !.test_item_id = CallerItem,
                               !.turn_name = args.turn_name,
                               !.force_fail = args.force_fail]
          /\ jl = NoJl
       \/ /\ entry = "upload_jan_logs"
          /\ pc = "jl_entry"
          /\ args \in {[NoArgs EXCEPT !.max_log_files = m, !.system = s] :
                         m \in 0..MaxLogs, s \in Systems}
          /\ tf = NoTf
          /\ jl = [NoJl EXCEPT !.test_item_id = CallerItem,
                               !.max_log_files = args.max_log_files]

\* the caller's call ends: it returns, or an exception leaves it
Return == pc' = "done" /\ outcome' = "returned"
Escape == pc' = "done" /\ outcome' = "raised"

---------------------------------------------------------------------------
(* extract_test_result_from_trajectory *)

is_turn_folder(f) == isdir(f) /\ startswith(f, "turn_")
is_response_file(f) == startswith(f, "api_call_") /\ endswith(f, "_response.json")

\* s[-1]
Last(s) == s[Len(s)]

\* the search with the negative pattern tried first
content_result_false_first(data) ==
    IF data.has_response /\ data.has_choices /\ data.choices # <<>>
    THEN LET last_choice == data.choices[Len(data.choices)] IN
         IF last_choice.has_message /\ last_choice.has_content
         THEN IF ~last_choice.is_str THEN FALSE
              ELSE IF re_search(false_pattern, last_choice.text) THEN FALSE
              ELSE re_search(true_pattern, last_choice.text)
         ELSE FALSE
    ELSE FALSE

\* what the function returns for a parsed response document: the navigation
\* to the last choice's content and the search for the two result patterns.
\* A content that is no str makes re.search raise, which the function's
\* except turns into False.
content_result(data) ==
    IF data.has_response /\ data.has_choices /\ data.choices # <<>>
    THEN LET last_choice == Last(data.choices) IN
         IF last_choice.has_message /\ last_choice.has_content
         THEN IF ~last_choice.is_str THEN FALSE
              ELSE LET true_match == re_search(true_pattern, last_choice.text)
                       false_match == re_search(false_pattern, last_choice.text)
                   IN IF true_match THEN TRUE
                      ELSE IF false_match THEN FALSE
                      ELSE FALSE
         ELSE FALSE
    ELSE FALSE

\* if not trajectory_dir or not os.path.exists(trajectory_dir): return False
ExMissing ==
    /\ pc = "ex_entry"
    /\ ~truthy(args.trajectory_dir) \/ ~exists(args.trajectory_dir)
    /\ ex' = [NoEx EXCEPT !.result = FALSE]
    /\ pc' = "ex_return"
    /\ UNCHANGED <<entry, args, outcome, faults, events, rp, tf, jl>>

\* the turn folders of the trajectory and the last of them
ExListdir ==
    /\ pc = "ex_entry"
    /\ truthy(args.trajectory_dir) /\ exists(args.trajectory_dir)
    /\ \E raised \in CanRaise :
         IF raised
         THEN /\ Fault
              /\ ex' = [NoEx EXCEPT !.result = FALSE]
              /\ pc' = "ex_return"
         ELSE /\ UNCHANGED <<faults, events>>
              /\ \E listing \in TrajectoryListings :
                   LET turn_folders == SelectSeq(listing, is_turn_folder) IN
                   IF turn_folders = <<>>
                   THEN /\ ex' = [NoEx EXCEPT !.listing = listing,
                                              !.result = FALSE]
                        /\ pc' = "ex_return"
                   ELSE /\ ex' = [NoEx EXCEPT
                                    !.listing = listing,
                                    !.last_turn = Last(sorted(turn_folders))]
                        /\ pc' = "ex_files"
    /\ UNCHANGED <<entry, args, outcome, rp, tf, jl>>

\* the response files of the last turn
ExFiles ==
    /\ pc = "ex_files"
    /\ \E raised \in CanRaise :
         IF raised
         THEN /\ Fault
              /\ ex' = [NoEx EXCEPT !.result = FALSE]
              /\ pc' = "ex_return"
         ELSE /\ UNCHANGED <<faults, events>>
              /\ \E files \in TurnListings :
                   LET response_files == SelectSeq(files, is_response_file) IN
                   /\ ex' = [NoEx EXCEPT !.last_turn = ex.last_turn,
                                         !.files = files,
                                         !.response_files = response_files,
                                         !.result = FALSE]
                   /\ pc' = IF response_files = <<>> THEN "ex_return"
                            ELSE "ex_last"
    /\ UNCHANGED <<entry, args, outcome, rp, tf, jl>>

\* last_response_file = sorted(response_files)[-1]
ExLast ==
    /\ pc = "ex_last"
    /\ ex' = [NoEx EXCEPT !.response_files = ex.response_files,
                          !.last_response_file = Last(sorted(ex.response_files))]
    /\ pc' = "ex_load"
    /\ UNCHANGED <<entry, args, outcome, faults, events, rp, tf, jl>>

\* json.load of the last response file, and the search in its content
ExLoad ==
    /\ pc = "ex_load"
    /\ \E data \in Documents :
         ex' = [NoEx EXCEPT
                  !.last_response_file = ex.last_response_file,
                  !.data = data,
                  !.result = IF data.parsed THEN content_result(data) ELSE FALSE]
    /\ pc' = "ex_return"
    /\ UNCHANGED <<entry, args, outcome, faults, events, rp, tf, jl>>

\* the function returns: to its caller, or into the status of
\* upload_test_results_to_rp
ExReturn ==
    /\ pc = "ex_return"
    /\ IF entry = "extract_test_result_from_trajectory"
       THEN /\ Return
            /\ UNCHANGED <<rp, ex>>
       ELSE /\ rp' = IF ex.result = TRUE
                     THEN [rp EXCEPT
                             !.final_status = "PASSED",
                             !.status_message =
                                 "completed successfully with positive result"]
                     ELSE [rp EXCEPT
                             !.final_status = "FAILED",
                             !.status_message = "no valid success result found"]
            /\ ex' = NoEx
            /\ pc' = "rp_start"
            /\ UNCHANGED outcome
    /\ UNCHANGED <<entry, args, faults, events, tf, jl>>

---------------------------------------------------------------------------
(* upload_turn_folder *)

\* an exception leaves upload_turn_folder: it reaches the except clause of
\* upload_test_results_to_rp, or the caller
TfRaise ==
    IF entry = "upload_turn_folder"
    THEN Escape /\ tf' = tf
    ELSE pc' = "rp_except" /\ outcome' = outcome /\ tf' = NoTf

\* step_item_id = client.start_test_item(..., item_type="STEP")
TfStart ==
    /\ pc = "tf_start"
    /\ \E raised \in CanRaise :
         /\ start_test_item("STEP", tf.turn_name, raised)
         /\ IF raised
            THEN TfRaise
            ELSE /\ tf' = [tf EXCEPT !.step_item_id = NewItemId,
                                     !.uploaded = FALSE,
                                     !.step_has_errors = FALSE]
                 /\ pc' = "tf_listdir"
                 /\ outcome' = outcome
    /\ UNCHANGED <<entry, args, rp, ex, jl>>

\* for fname in sorted(os.listdir(turn_path))
TfListdir ==
    /\ pc = "tf_listdir"
    /\ \E raised \in CanRaise :
         IF raised
         THEN Fault /\ TfRaise
         ELSE /\ UNCHANGED <<faults, events, outcome>>
              /\ \E listing \in (IF entry = "upload_turn_folder"
                                  THEN TurnListings ELSE RunTurnListings) :
                   tf' = [tf EXCEPT !.listing = sorted(listing), !.i = 1]
              /\ pc' = "tf_file"
    /\ UNCHANGED <<entry, args, rp, ex, jl>>

\* the body of the loop for one file: the try block of a .json file, the
\* try block of a .png file, or nothing for any other file
TfFile ==
    /\ pc = "tf_file"
    /\ tf.i <= Len(tf.listing)
    /\ LET fname == tf.listing[tf.i] IN
       IF endswith(fname, ".json")
       THEN \/ \* json.load raises on the file's content
               /\ pc' = "tf_file_except"
               /\ UNCHANGED <<faults, events, tf>>
            \/ \E raised \in CanRaise :
                 /\ log(tf.step_item_id, "INFO", "json", fname, "", raised)
                 /\ IF raised
                    THEN pc' = "tf_file_except" /\ tf' = tf
                    ELSE /\ tf' = [tf EXCEPT !.uploaded = TRUE, !.i = tf.i + 1]
                         /\ pc' = "tf_file"
       ELSE IF endswith(fname, ".png")
       THEN \/ \* open or read raises
               /\ faults < MaxFaults
               /\ Fault
               /\ pc' = "tf_file_except"
               /\ tf' = tf
            \/ \E raised \in CanRaise :
                 /\ log(tf.step_item_id, "INFO", "screenshot", fname,
                        "image/png", raised)
                 /\ IF raised
                    THEN pc' = "tf_file_except" /\ tf' = tf
                    ELSE /\ tf' = [tf EXCEPT !.uploaded = TRUE, !.i = tf.i + 1]
                         /\ pc' = "tf_file"
       ELSE /\ tf' = [tf EXCEPT !.i = tf.i + 1]
            /\ pc' = "tf_file"
            /\ UNCHANGED <<faults, events>>
    /\ UNCHANGED <<entry, args, outcome, rp, ex, jl>>

\* the except clause of either try block: the ERROR entry, and the step has
\* errors
TfFileExcept ==
    /\ pc = "tf_file_except"
    /\ LET fname == tf.listing[tf.i] IN
       \E raised \in CanRaise :
         /\ log(tf.step_item_id, "ERROR",
                IF endswith(fname, ".json") THEN "error_parsing"
                ELSE "error_attaching", fname, "", raised)
         /\ IF raised
            THEN TfRaise
            ELSE /\ tf' = [tf EXCEPT !.step_has_errors = TRUE, !.i = tf.i + 1]
                 /\ pc' = "tf_file"
                 /\ outcome' = outcome
    /\ UNCHANGED <<entry, args, rp, ex, jl>>

\* the WARNING entry only for a turn without any file
TfNoDataIfEmpty ==
    /\ pc = "tf_file"
    /\ tf.i > Len(tf.listing)
    /\ IF tf.listing = <<>>
       THEN \E raised \in CanRaise :
              /\ log(tf.step_item_id, "WARNING", "no_data", "", "", raised)
              /\ IF raised
                 THEN TfRaise
                 ELSE pc' = "tf_finish" /\ tf' = tf /\ outcome' = outcome
       ELSE /\ pc' = "tf_finish"
            /\ UNCHANGED <<faults, events, tf, outcome>>
    /\ UNCHANGED <<entry, args, rp, ex, jl>>

\* if not uploaded: the WARNING entry
TfNoData ==
    /\ pc = "tf_file"
    /\ tf.i > Len(tf.listing)
    /\ IF ~tf.uploaded
       THEN \E raised \in CanRaise :
              /\ log(tf.step_item_id, "WARNING", "no_data", "", "", raised)
              /\ IF raised
                 THEN TfRaise
                 ELSE pc' = "tf_finish" /\ tf' = tf /\ outcome' = outcome
       ELSE /\ pc' = "tf_finish"
            /\ UNCHANGED <<faults, events, tf, outcome>>
    /\ UNCHANGED <<entry, args, rp, ex, jl>>

\* the status without the errors of the files
step_status_forced_only(force_fail, step_has_errors) ==
    IF force_fail THEN "FAILED" ELSE "PASSED"

\* the status the step is finished with
step_status(force_fail, step_has_errors) ==
    IF force_fail THEN "FAILED"
    ELSE IF step_has_errors THEN "FAILED" ELSE "PASSED"

\* client.finish_test_item(item_id=step_item_id, status=step_status)
TfFinish ==
    /\ pc = "tf_finish"
    /\ \E raised \in CanRaise :
         /\ finish_test_item(tf.step_item_id,
                             step_status(tf.force_fail, tf.step_has_errors),
                             raised)
         /\ IF raised
            THEN TfRaise
            ELSE pc' = "tf_return" /\ tf' = tf /\ outcome' = outcome
    /\ UNCHANGED <<entry, args, rp, ex, jl>>

\* the function returns: to its caller, or into the loop over the turns
TfReturn ==
    /\ pc = "tf_return"
    /\ IF entry = "upload_turn_folder"
       THEN Return /\ tf' = tf
       ELSE pc' = "rp_turns" /\ tf' = NoTf /\ outcome' = outcome
    /\ UNCHANGED <<entry, args, faults, events, rp, ex, jl>>

---------------------------------------------------------------------------
(* upload_jan_logs *)

\* an exception leaves upload_jan_logs
JlRaise ==
    IF entry = "upload_jan_logs"
    THEN Escape /\ jl' = jl
    ELSE pc' = "rp_except" /\ outcome' = outcome /\ jl' = NoJl

\* the glob of every pattern; with no file found, the WARNING entry and return.
\* A glob that raises is caught and adds no file.
JlGlob ==
    /\ pc = "jl_entry"
    /\ \E found \in (IF entry = "upload_jan_logs"
                     THEN LogListings ELSE RunLogListings) :
         LET all_log_files ==
                 IF get_jan_log_paths(args.system) = <<>> THEN <<>> ELSE found
         IN  IF all_log_files = <<>>
             THEN \E raised \in CanRaise :
                    /\ log(jl.test_item_id, "WARNING", "no_logs", "", "", raised)
                    /\ IF raised
                       THEN JlRaise
                       ELSE pc' = "jl_return" /\ jl' = jl /\ outcome' = outcome
             ELSE /\ jl' = [jl EXCEPT !.all_log_files = all_log_files]
                  /\ pc' = "jl_sort"
                  /\ UNCHANGED <<faults, events, outcome>>
    /\ UNCHANGED <<entry, args, rp, ex, tf>>

\* all_log_files.sort(key=getmtime, reverse=True); [:max_log_files]
JlSort ==
    /\ pc = "jl_sort"
    /\ \E raised \in CanRaise :
         IF raised
         THEN Fault /\ pc' = "jl_except" /\ jl' = jl
         ELSE /\ jl' = [jl EXCEPT
                          !.all_log_files = sort_by_mtime(jl.all_log_files),
                          !.to_upload = Take(sort_by_mtime(jl.all_log_files),
                                             jl.max_log_files),
                          !.i = 1]
              /\ pc' = "jl_file"
              /\ UNCHANGED <<faults, events>>
    /\ UNCHANGED <<entry, args, outcome, rp, ex, tf>>

\* the limit taken as exclusive
too_large_at_limit(file_size) == file_size >= max_file_size

\* if file_size > max_file_size
too_large(file_size) == file_size > max_file_size

\* the try block of the loop for one log file: its size, the WARNING entry of
\* a file over the limit, or the read and the text attachment
JlFile ==
    /\ pc = "jl_file"
    /\ jl.i <= Len(jl.to_upload)
    /\ LET log_file == jl.to_upload[jl.i] IN
       \/ \* os.path.getsize raises
          /\ faults < MaxFaults
          /\ Fault
          /\ pc' = "jl_file_except"
          /\ jl' = jl
       \/ /\ too_large(log_file.size)
          /\ \E raised \in CanRaise :
               /\ log(jl.test_item_id, "WARNING", "log_skipped", log_file.name,
                      "", raised)
               /\ IF raised
                  THEN pc' = "jl_file_except" /\ jl' = jl
                  ELSE pc' = "jl_file" /\ jl' = [jl EXCEPT !.i = jl.i + 1]
       \/ \* open or read raises
          /\ ~too_large(log_file.size)
          /\ faults < MaxFaults
          /\ Fault
          /\ pc' = "jl_file_except"
          /\ jl' = jl
       \/ /\ ~too_large(log_file.size)
          /\ \E raised \in CanRaise :
               /\ log(jl.test_item_id, "INFO", "log_file", log_file.name,
                      "text/plain", raised)
               /\ IF raised
                  THEN pc' = "jl_file_except" /\ jl' = jl
                  ELSE pc' = "jl_file" /\ jl' = [jl EXCEPT !.i = jl.i + 1]
    /\ UNCHANGED <<entry, args, outcome, rp, ex, tf>>

\* the except clause of the loop: the ERROR entry, then the next file
JlFileExcept ==
    /\ pc = "jl_file_except"
    /\ \E raised \in CanRaise :
         /\ log(jl.test_item_id, "ERROR", "log_failed", jl.to_upload[jl.i].name,
                "", raised)
         /\ IF raised
            THEN pc' = "jl_except" /\ jl' = jl
            ELSE pc' = "jl_file" /\ jl' = [jl EXCEPT !.i = jl.i + 1]
    /\ UNCHANGED <<entry, args, outcome, rp, ex, tf>>

\* the summary entry after the loop
JlSummary ==
    /\ pc = "jl_file"
    /\ jl.i > Len(jl.to_upload)
    /\ \E raised \in CanRaise :
         /\ log(jl.test_item_id, "INFO", "logs_uploaded", "", "", raised)
         /\ pc' = IF raised THEN "jl_except" ELSE "jl_return"
    /\ UNCHANGED <<entry, args, outcome, rp, ex, tf, jl>>

\* the outer except clause: the ERROR entry
JlExcept ==
    /\ pc = "jl_except"
    /\ \E raised \in CanRaise :
         /\ log(jl.test_item_id, "ERROR", "logs_error", "", "", raised)
         /\ IF raised
            THEN JlRaise
            ELSE pc' = "jl_return" /\ jl' = jl /\ outcome' = outcome
    /\ UNCHANGED <<entry, args, rp, ex, tf>>

\* the function returns: to its caller, or to the turns of
\* upload_test_results_to_rp
JlReturn ==
    /\ pc = "jl_return"
    /\ IF entry = "upload_jan_logs"
       THEN Return /\ jl' = jl
       ELSE pc' = "rp_sort_turns" /\ jl' = NoJl /\ outcome' = outcome
    /\ UNCHANGED <<entry, args, faults, events, rp, ex, tf>>

---------------------------------------------------------------------------
(* upload_test_results_to_rp *)

missing_trajectory ==
    ~truthy(args.trajectory_dir) \/ ~exists(args.trajectory_dir)

has_video == truthy(args.video_path) /\ exists(args.video_path)

\* no trajectory directory: the TEST item is started
RpMissingStart ==
    /\ pc = "rp_entry"
    /\ missing_trajectory
    /\ \E raised \in CanRaise :
         /\ start_test_item("TEST", "test", raised)
         /\ IF raised
            THEN Escape /\ rp' = rp
            ELSE /\ rp' = [rp EXCEPT !.test_item_id = NewItemId]
                 /\ pc' = "rp_missing_log"
                 /\ outcome' = outcome
    /\ UNCHANGED <<entry, args, ex, tf, jl>>

\* no trajectory directory: the fixed ERROR entry
RpMissingLog ==
    /\ pc = "rp_missing_log"
    /\ \E raised \in CanRaise :
         /\ log(rp.test_item_id, "ERROR", "no_trajectory", "", "", raised)
         /\ IF raised
            THEN Escape
            ELSE pc' = "rp_missing_video" /\ outcome' = outcome
    /\ UNCHANGED <<entry, args, rp, ex, tf, jl>>

\* no trajectory directory: the video, when there is one; a failure to read
\* or to attach it is caught and only written to the local logger
RpMissingVideo ==
    /\ pc = "rp_missing_video"
    /\ IF has_video
       THEN \/ /\ faults < MaxFaults
               /\ Fault
            \/ \E raised \in CanRaise :
                 log(rp.test_item_id, "INFO", "video", "", "video/x-msvideo",
                     raised)
       ELSE UNCHANGED <<faults, events>>
    /\ pc' = "rp_missing_finish"
    /\ UNCHANGED <<entry, args, outcome, rp, ex, tf, jl>>

\* the branch without its return: the call goes on to the trajectory's upload
RpMissingFinishFallsThrough ==
    /\ pc = "rp_missing_finish"
    /\ \E raised \in CanRaise :
         /\ finish_test_item(rp.test_item_id, "FAILED", raised)
         /\ IF raised THEN Escape ELSE pc' = "rp_start" /\ outcome' = outcome
    /\ UNCHANGED <<entry, args, rp, ex, tf, jl>>

\* no trajectory directory: the TEST item is finished FAILED
RpMissingFinish ==
    /\ pc = "rp_missing_finish"
    /\ \E raised \in CanRaise :
         /\ finish_test_item(rp.test_item_id, "FAILED", raised)
         /\ IF raised THEN Escape ELSE Return
    /\ UNCHANGED <<entry, args, rp, ex, tf, jl>>

\* the status taken from the trajectory's result even after a forced stop
RpStatusIgnoresForce ==
    /\ pc = "rp_entry"
    /\ ~missing_trajectory
    /\ pc' = "ex_entry"
    /\ UNCHANGED <<entry, args, outcome, faults, events, rp, ex, tf, jl>>

\* the final status: of a forced stop, or of the trajectory's result
RpStatus ==
    /\ pc = "rp_entry"
    /\ ~missing_trajectory
    /\ IF args.force_stopped
       THEN /\ rp' = [rp EXCEPT
                        !.final_status = "FAILED",
                        !.status_message =
                            "exceeded maximum turn limit (30 turns)"]
            /\ pc' = "rp_start"
       ELSE /\ pc' = "ex_entry"
            /\ rp' = rp
    /\ UNCHANGED <<entry, args, outcome, faults, events, ex, tf, jl>>

\* the TEST item is started, outside the try block
RpStart ==
    /\ pc = "rp_start"
    /\ \E raised \in CanRaise :
         /\ start_test_item("TEST", "test", raised)
         /\ IF raised
            THEN Escape /\ rp' = rp
            ELSE /\ rp' = [rp EXCEPT !.test_item_id = NewItemId]
                 /\ pc' = "rp_listdir"
                 /\ outcome' = outcome
    /\ UNCHANGED <<entry, args, ex, tf, jl>>

\* turn_folders: the directories of the trajectory named turn_*
RpListdir ==
    /\ pc = "rp_listdir"
    /\ \E raised \in CanRaise :
         IF raised
         THEN Fault /\ pc' = "rp_except" /\ rp' = rp
         ELSE /\ UNCHANGED <<faults, events>>
              /\ \E listing \in TrajectoryListings :
                   rp' = [rp EXCEPT
                            !.turn_folders = SelectSeq(listing, is_turn_folder)]
              /\ pc' = "rp_summary"
    /\ UNCHANGED <<entry, args, outcome, ex, tf, jl>>

\* the summary entry: status, reason and number of turns
RpSummary ==
    /\ pc = "rp_summary"
    /\ \E raised \in CanRaise :
         /\ log(rp.test_item_id,
                IF rp.final_status = "PASSED" THEN "INFO" ELSE "ERROR",
                "summary", rp.status_message, "", raised)
         /\ pc' = IF raised THEN "rp_except" ELSE "rp_video"
    /\ UNCHANGED <<entry, args, outcome, rp, ex, tf, jl>>

\* the screen recording: its try block, or the WARNING entry of its absence
RpVideo ==
    /\ pc = "rp_video"
    /\ IF has_video
       THEN \/ \* os.path.getsize raises, outside the inner try
               /\ faults < MaxFaults
               /\ Fault
               /\ pc' = "rp_except"
            \/ \* open or read raises
               /\ faults < MaxFaults
               /\ Fault
               /\ pc' = "rp_video_except"
            \/ \E raised \in CanRaise :
                 /\ log(rp.test_item_id, "INFO", "video", "", "video/x-msvideo",
                        raised)
                 /\ pc' = IF raised THEN "rp_video_except" ELSE "rp_logs"
       ELSE \E raised \in CanRaise :
              /\ log(rp.test_item_id, "WARNING", "no_video", "", "", raised)
              /\ pc' = IF raised THEN "rp_except" ELSE "rp_logs"
    /\ UNCHANGED <<entry, args, outcome, rp, ex, tf, jl>>

\* the except clause of the screen recording: the WARNING entry
RpVideoExcept ==
    /\ pc = "rp_video_except"
    /\ \E raised \in CanRaise :
         /\ log(rp.test_item_id, "WARNING", "video_failed", "", "", raised)
         /\ pc' = IF raised THEN "rp_except" ELSE "rp_logs"
    /\ UNCHANGED <<entry, args, outcome, rp, ex, tf, jl>>

\* upload_jan_logs(client, test_item_id, is_nightly, max_log_files=5)
RpLogs ==
    /\ pc = "rp_logs"
    /\ jl' = [NoJl EXCEPT !.test_item_id = rp.test_item_id,
                          !.max_log_files = RunMaxLogFiles]
    /\ pc' = "jl_entry"
    /\ UNCHANGED <<entry, args, outcome, faults, events, rp, ex, tf>>

\* for turn_folder in sorted(turn_folders)
RpSortTurns ==
    /\ pc = "rp_sort_turns"
    /\ rp' = [rp EXCEPT !.todo = sorted(rp.turn_folders), !.turn_folders = <<>>]
    /\ pc' = "rp_turns"
    /\ UNCHANGED <<entry, args, outcome, faults, events, ex, tf, jl>>

\* the turns never forced
force_fail_turns_never(final_status) == FALSE

\* whether the turns are forced to FAILED
force_fail_turns(final_status) == final_status = "FAILED"

\* upload_turn_folder(client, test_item_id, turn_path, turn_folder,
\*                    force_fail=force_fail_turns) for the next turn
RpTurns ==
    /\ pc = "rp_turns"
    /\ rp.todo # <<>>
    /\ tf' = [NoTf EXCEPT !.test_item_id = rp.test_item_id,
                          !.turn_name = Head(rp.todo),
                          !.force_fail = force_fail_turns(rp.final_status)]
    /\ rp' = [rp EXCEPT !.todo = Tail(rp.todo)]
    /\ pc' = "tf_start"
    /\ UNCHANGED <<entry, args, outcome, faults, events, ex, jl>>

\* after the last turn: the TEST item is finished with the final status
RpFinish ==
    /\ pc = "rp_turns"
    /\ rp.todo = <<>>
    /\ \E raised \in CanRaise :
         /\ finish_test_item(rp.test_item_id, rp.final_status, raised)
         /\ IF raised
            THEN pc' = "rp_except" /\ outcome' = outcome
            ELSE Return
    /\ UNCHANGED <<entry, args, rp, ex, tf, jl>>

\* except Exception: the TEST item is finished FAILED
RpExcept ==
    /\ pc = "rp_except"
    /\ \E raised \in CanRaise :
         /\ finish_test_item(rp.test_item_id, "FAILED", raised)
         /\ IF raised THEN Escape ELSE Return
    /\ UNCHANGED <<entry, args, rp, ex, tf, jl>>

---------------------------------------------------------------------------
Next ==
    \/ ExMissing \/ ExListdir \/ ExFiles \/ ExLast \/ ExLoad \/ ExReturn
    \/ TfStart \/ TfListdir \/ TfFile \/ TfFileExcept \/ TfNoData \/ TfFinish
    \/ TfReturn
    \/ JlGlob \/ JlSort \/ JlFile \/ JlFileExcept \/ JlSummary \/ JlExcept
    \/ JlReturn
    \/ RpMissingStart \/ RpMissingLog \/ RpMissingVideo \/ RpMissingFinish
    \/ RpStatus \/ RpStart \/ RpListdir \/ RpSummary \/ RpVideo
    \/ RpVideoExcept \/ RpLogs \/ RpSortTurns \/ RpTurns \/ RpFinish
    \/ RpExcept

Spec == Init /\ [][Next]_vars
---------------------------------------------------------------------------
(* What the backend saw *)

Calls == 1..Len(events)
IsRun == entry = "upload_test_results_to_rp"

\* the calls that started an item of a type, and the items they started
Starts(type) ==
    {i \in Calls : /\ events[i].op = "start_test_item"
                   /\ events[i].kind = type
                   /\ events[i].ok}
Items(type) == {events[i].item : i \in Starts(type)}

\* the calls of finish_test_item on an item, raised or not
Finishes(item) ==
    {i \in Calls : events[i].op = "finish_test_item" /\ events[i].item = item}

\* the calls of log on an item, raised or not
Logs(item) == {i \in Calls : events[i].op = "log" /\ events[i].item = item}
LogsOf(item, level) == {i \in Logs(item) : events[i].kind = level}

SummaryLogs == {i \in Calls : events[i].op = "log" /\ events[i].tag = "summary"}

---------------------------------------------------------------------------
(* C1, C2: finalisation and exceptions of upload_test_results_to_rp *)

\* C1: when a run of upload_test_results_to_rp has ended, by return or by an
\* exception, every item that was started, the TEST item and every STEP item,
\* has had finish_test_item called on it exactly once.
C1_EveryStartedItemFinishedOnce ==
    (IsRun /\ outcome # "running") =>
        \A item \in Items("TEST") \cup Items("STEP") :
            Cardinality(Finishes(item)) = 1

\* C2: no exception leaves upload_test_results_to_rp: the call never ends
\* raised, whichever backend call or file operation fails.
C2_NoExceptionPropagates == IsRun => outcome # "raised"

---------------------------------------------------------------------------
(* C3: no trajectory directory *)

\* C3: with trajectory_dir empty or not existing, no STEP item is ever
\* started, at most one TEST item is, and it is only ever finished FAILED;
\* when the call has returned, exactly one TEST item was started and
\* finish_test_item was called on it exactly once, with FAILED.  This for
\* every video_path and force_stopped.
C3_MissingTrajectory ==
    (IsRun /\ (~truthy(args.trajectory_dir) \/ ~exists(args.trajectory_dir))) =>
        /\ \A i \in Calls :
             /\ events[i].op = "start_test_item" => events[i].kind = "TEST"
             /\ events[i].op = "finish_test_item" =>
                  /\ events[i].kind = "FAILED"
                  /\ events[i].item \in Items("TEST")
        /\ Cardinality({i \in Calls : events[i].op = "start_test_item"}) <= 1
        /\ outcome = "returned" =>
             /\ Cardinality(Starts("TEST")) = 1
             /\ \A item \in Items("TEST") :
                  /\ Cardinality(Finishes(item)) = 1
                  /\ \A i \in Finishes(item) : events[i].ok

\* a returned call without trajectory directory, with a video and a forced
\* stop, whose TEST item is finished FAILED
C3_Witness ==
    /\ IsRun
    /\ args.trajectory_dir = "missing"
    /\ args.force_stopped
    /\ args.video_path = "rec.mp4"
    /\ outcome = "returned"
    /\ \E i \in Calls : events[i].op = "log" /\ events[i].tag = "video"
    /\ \E i \in Calls : /\ events[i].op = "finish_test_item"
                        /\ events[i].kind = "FAILED"
                        /\ events[i].ok

---------------------------------------------------------------------------
(* C4: the forced stop *)

TurnLimit == "exceeded maximum turn limit (30 turns)"

\* C4: with force_stopped on an existing trajectory, the response is never
\* read (the result extraction is never entered), every summary entry is an
\* ERROR entry giving the turn-limit reason, the TEST item is only ever
\* finished FAILED, and when the call has returned the TEST item has been
\* finished FAILED; a call that returned with no failure of the environment
\* has logged exactly one summary entry.
C4_ForcedStop ==
    (IsRun /\ truthy(args.trajectory_dir) /\ exists(args.trajectory_dir)
           /\ args.force_stopped) =>
        /\ pc \notin {"ex_entry", "ex_files", "ex_last", "ex_load", "ex_return"}
        /\ ex = NoEx
        /\ \A i \in SummaryLogs :
             events[i].name = TurnLimit /\ events[i].kind = "ERROR"
        /\ \A item \in Items("TEST") : \A i \in Finishes(item) :
             events[i].kind = "FAILED"
        /\ outcome = "returned" =>
             \E item \in Items("TEST") : \E i \in Finishes(item) : events[i].ok
        /\ (outcome = "returned" /\ faults = 0) =>
             Cardinality(SummaryLogs) = 1

\* a returned forced-stop call on an existing trajectory: the summary gives
\* the turn limit, a turn was uploaded and the TEST item is finished FAILED
C4_Witness ==
    /\ IsRun
    /\ args.trajectory_dir = "traj"
    /\ args.force_stopped
    /\ outcome = "returned"
    /\ \E i \in SummaryLogs : events[i].name = TurnLimit /\ events[i].ok
    /\ Items("STEP") # {}
    /\ \E item \in Items("TEST") : \E i \in Finishes(item) :
         events[i].kind = "FAILED" /\ events[i].ok

---------------------------------------------------------------------------
(* C5: the result of a trajectory *)

\* The texts of a result marker, spelled out: the braces, the quoted key, the
\* colon and the word, with up to two whitespace characters in each gap (no
\* text of the model has a longer run of whitespace).
WsRuns == { <<>>, << " " >>, << " ", " " >> }
MarkerTexts(word) ==
    { << "{" >> \o a \o << "result" >> \o b \o << ":" >> \o c \o << word >>
        \o d \o << "}" >> : a \in WsRuns, b \in WsRuns, c \in WsRuns, d \in WsRuns }

\* the text contains a marker of the word
Contains(text, word) ==
    \E i \in 1..Len(text) : \E j \in i..Len(text) :
        SubSeq(text, i, j) \in MarkerTexts(word)

\* the extraction has read a response document whose last choice has a
\* content text
HasContent ==
    /\ ex.last_response_file # ""
    /\ ex.data.parsed
    /\ ex.data.has_response /\ ex.data.has_choices /\ ex.data.choices # <<>>
    /\ Last(ex.data.choices).has_message
    /\ Last(ex.data.choices).has_content
    /\ Last(ex.data.choices).is_str
Content == Last(ex.data.choices).text

\* the greatest of a set of names in Python's order
IsLexicallyLast(name, names) ==
    name \in names /\ \A f \in names : Rank(f) <= Rank(name)

\* the turn and the response file the extraction reads: the lexically last
\* turn_* directory of the trajectory, and the lexically last
\* api_call_*_response.json among the files of that turn
C5_Selection ==
    /\ pc = "ex_files" =>
         IsLexicallyLast(ex.last_turn,
                         Range(ex.listing) \cap {"turn_1", "turn_10", "turn_2"})
    /\ pc = "ex_last" =>
         Range(ex.response_files) =
             Range(ex.files) \cap {"api_call_1_response.json",
                                   "api_call_2_response.json"}
    /\ pc = "ex_load" =>
         IsLexicallyLast(ex.last_response_file, Range(ex.response_files))

\* C5 as stated: the content of the last choice of the lexically last response
\* of the lexically last turn decides; the affirmative marker gives true, the
\* negative marker gives false, neither or anything missing gives false, for
\* every content text, also one with both markers.
C5_MarkerDecides ==
    /\ C5_Selection
    /\ pc = "ex_return" =>
         IF HasContent
         THEN /\ Contains(Content, "True") => ex.result = TRUE
              /\ Contains(Content, "False") => ex.result = FALSE
              /\ (~Contains(Content, "True") /\ ~Contains(Content, "False")) =>
                   ex.result = FALSE
         ELSE ex.result = FALSE

\* C5 amended: the result is true exactly when the content contains the
\* affirmative marker, whether or not it also contains the negative one; the
\* negative marker alone, no marker, or anything missing gives false.
C5_AffirmativeDecides ==
    /\ C5_Selection
    /\ pc = "ex_return" =>
         IF HasContent
         THEN ex.result = Contains(Content, "True")
         ELSE ex.result = FALSE

\* a content with both markers, the negative one first, found true
C5_Witness ==
    /\ pc = "ex_return"
    /\ HasContent
    /\ Content = MarkerFalse \o MarkerTrue
    /\ ex.result = TRUE

---------------------------------------------------------------------------
(* C6, C7: the status and the entries of one turn *)

\* upload_turn_folder has finished its STEP item and is about to return
TurnUploaded == pc = "tf_return"

recognized(fname) == endswith(fname, ".json") \/ endswith(fname, ".png")

\* the ERROR entries of the step that were logged: the .json and .png files
\* of the turn that failed to parse, read or attach
StepErrors == {i \in LogsOf(tf.step_item_id, "ERROR") : events[i].ok}

\* the INFO entries of the step that were logged: the files processed
StepUploads == {i \in LogsOf(tf.step_item_id, "INFO") : events[i].ok}

\* C6: the STEP item is finished, once, FAILED if and only if force_fail is
\* set or a .json or .png file of the turn failed, and PASSED otherwise; only
\* .json and .png files of the turn have error entries.
C6_StepStatus ==
    TurnUploaded =>
        /\ tf.step_item_id \in Items("STEP")
        /\ Cardinality(Finishes(tf.step_item_id)) = 1
        /\ \A i \in StepErrors :
             events[i].name \in Range(tf.listing) /\ recognized(events[i].name)
        /\ \A i \in Finishes(tf.step_item_id) :
             /\ events[i].kind \in {"PASSED", "FAILED"}
             /\ events[i].kind = "FAILED" <=> (tf.force_fail \/ StepErrors # {})

\* a step not forced to fail, with a file of another extension and a file
\* that failed, finished FAILED
C6_Witness ==
    /\ TurnUploaded
    /\ ~tf.force_fail
    /\ "notes.txt" \in Range(tf.listing)
    /\ StepErrors # {}
    /\ \E i \in Finishes(tf.step_item_id) : events[i].kind = "FAILED"

\* C7: a turn with no .json and no .png file has exactly one entry, a
\* WARNING, and is finished PASSED unless force_fail is set; and in every turn
\* the WARNING entry is there, once, exactly when no file was processed.
C7_NoDataWarning ==
    TurnUploaded =>
        /\ (\A f \in Range(tf.listing) : ~recognized(f)) =>
             /\ Cardinality(Logs(tf.step_item_id)) = 1
             /\ \A i \in Logs(tf.step_item_id) :
                  events[i].kind = "WARNING" /\ events[i].ok
             /\ \A i \in Finishes(tf.step_item_id) :
                  events[i].kind = IF tf.force_fail THEN "FAILED" ELSE "PASSED"
        /\ Cardinality(LogsOf(tf.step_item_id, "WARNING")) =
             IF StepUploads = {} THEN 1 ELSE 0

\* a turn holding only a file of another extension, not forced to fail: one
\* WARNING entry, finished PASSED
C7_Witness ==
    /\ TurnUploaded
    /\ ~tf.force_fail
    /\ tf.listing = << "notes.txt" >>
    /\ Cardinality(Logs(tf.step_item_id)) = 1
    /\ \E i \in Finishes(tf.step_item_id) : events[i].kind = "PASSED"

---------------------------------------------------------------------------
(* C8: the application log files *)

Limit50MiB == 50 * 1024 * 1024

\* the entries that name a log file
FileLogs(name, tag) ==
    {i \in Calls : /\ events[i].op = "log"
                   /\ events[i].tag = tag
                   /\ events[i].name = name}
Skips(f) == FileLogs(f.name, "log_skipped")
Attachments(f) ==
    {i \in FileLogs(f.name, "log_file") : events[i].att = "text/plain"}
Failures(f) == FileLogs(f.name, "log_failed")

\* C8: at most max_log_files files are selected, the most recently modified
\* ones, and no entry names any other file.  A selected file over 50 MiB
\* never gets an attachment and one of at most 50 MiB never gets the skip
\* WARNING; once the loop is past a file that raised no error, the file has
\* exactly one entry: the WARNING if it is over 50 MiB, the text/plain
\* attachment otherwise.  Unless the outer handler ran, the loop gets past
\* every selected file.
C8_LogFiles ==
    (pc \in {"jl_file", "jl_file_except", "jl_except", "jl_return"}
        \/ (pc = "done" /\ entry = "upload_jan_logs")) =>
        /\ Len(jl.to_upload) <= jl.max_log_files
        /\ \A f \in Range(jl.to_upload) :
             \A g \in Range(jl.all_log_files) \ Range(jl.to_upload) :
                f.mtime >= g.mtime
        /\ \A i \in Calls :
             events[i].tag \in {"log_skipped", "log_file", "log_failed"} =>
                \E f \in Range(jl.to_upload) : f.name = events[i].name
        /\ \A k \in 1..Len(jl.to_upload) :
             LET f == jl.to_upload[k] IN
             /\ Cardinality(Skips(f)) <= 1
             /\ Cardinality(Attachments(f)) <= 1
             /\ f.size > Limit50MiB => Attachments(f) = {}
             /\ f.size <= Limit50MiB => Skips(f) = {}
             /\ (k < jl.i /\ Failures(f) = {}) =>
                  IF f.size > Limit50MiB
                  THEN \E i \in Skips(f) :
                         events[i].kind = "WARNING" /\ events[i].ok
                  ELSE \E i \in Attachments(f) : events[i].ok
             /\ k > jl.i => Skips(f) \cup Attachments(f) \cup Failures(f) = {}
        /\ (pc = "jl_return" /\ jl.all_log_files # <<>>
               /\ \A i \in Calls : events[i].tag # "logs_error") =>
             jl.i = Len(jl.to_upload) + 1

\* two selected files, the newer over 50 MiB and skipped with a WARNING, the
\* older attached as text
C8_Witness ==
    /\ entry = "upload_jan_logs"
    /\ outcome = "returned"
    /\ Len(jl.to_upload) = 2
    /\ jl.to_upload[1].size > Limit50MiB
    /\ jl.to_upload[2].size = Limit50MiB
    /\ Skips(jl.to_upload[1]) # {}
    /\ Attachments(jl.to_upload[1]) = {}
    /\ Attachments(jl.to_upload[2]) # {}

---------------------------------------------------------------------------
(* C9: the order of the backend's events *)

StepStartCalls ==
    {i \in Calls : events[i].op = "start_test_item" /\ events[i].kind = "STEP"}
VideoTags == {"video", "video_failed", "no_video"}
AppLogTags ==
    {"no_logs", "log_skipped", "log_file", "log_failed", "logs_uploaded",
     "logs_error"}

\* the TEST item is started first
TestStartedFirst ==
    events # <<>> =>
        events[1].op = "start_test_item" /\ events[1].kind = "TEST"

\* the summary, then the video entry, then the application-log entries, and
\* all of them before the first STEP item
TestEntriesBeforeSteps ==
    \A i, j \in Calls :
        /\ (events[i].tag = "summary" /\ events[j].tag \in VideoTags) => i < j
        /\ (events[i].tag \in VideoTags /\ events[j].tag \in AppLogTags) => i < j
        /\ (events[i].tag \in {"summary"} \cup VideoTags \cup AppLogTags
               /\ j \in StepStartCalls) => i < j

\* the STEP items are started in ascending lexical order of the turn names,
\* the turns still to upload coming after them
StepsAscending ==
    /\ \A i, j \in StepStartCalls :
         i < j => Rank(events[i].name) < Rank(events[j].name)
    /\ \A i \in StepStartCalls : \A k \in 1..Len(rp.todo) :
         Rank(events[i].name) < Rank(rp.todo[k])
    /\ \A k, l \in 1..Len(rp.todo) : k < l => Rank(rp.todo[k]) < Rank(rp.todo[l])

\* a STEP item is finished before the next one is started
StepFinishedBeforeNext ==
    \A i \in Starts("STEP") : \A j \in StepStartCalls :
        i < j => \E k \in Finishes(events[i].item) : i < k /\ k < j

\* the TEST item is finished only after every STEP item has been finished
TestFinishedAfterSteps ==
    \A t \in Items("TEST") : \A k \in Finishes(t) :
        \A i \in Starts("STEP") :
            \E m \in Finishes(events[i].item) : m < k

\* C9: in a run on an existing trajectory the TEST item is started first,
\* then the summary, video and application-log entries are logged, then one
\* STEP item per turn in ascending lexical order, each finished before the
\* next is started, and the TEST item is finished only after every STEP item
\* has been finished.
C9_EventOrder ==
    (IsRun /\ truthy(args.trajectory_dir) /\ exists(args.trajectory_dir)) =>
        /\ TestStartedFirst
        /\ TestEntriesBeforeSteps
        /\ StepsAscending
        /\ StepFinishedBeforeNext
        /\ TestFinishedAfterSteps

---------------------------------------------------------------------------
(* C10: the turns of a failed test *)

StepFinishes == UNION {Finishes(s) : s \in Items("STEP")}

\* C10 as stated: whenever the TEST item is finalized FAILED, every STEP item
\* finished under it was finished FAILED, also when the FAILED comes from an
\* error raised after the status was determined as PASSED.
C10_FailedTestFailedTurns ==
    IsRun =>
        ((\E t \in Items("TEST") : \E i \in Finishes(t) :
              events[i].ok /\ events[i].kind = "FAILED")
            => \A i \in StepFinishes : events[i].kind = "FAILED")

\* C10 amended: whenever the final status determined before the upload is
\* FAILED, every STEP item is finished FAILED; a STEP item is finished PASSED
\* only under a final status of PASSED, and then the TEST item is finished
\* with PASSED or, by the error handler, with FAILED.
C10_DeterminedFailedFailedTurns ==
    IsRun =>
        /\ rp.final_status = "FAILED" =>
             \A i \in StepFinishes : events[i].kind = "FAILED"
        /\ \A t \in Items("TEST") : \A i \in Finishes(t) :
             events[i].kind \in {rp.final_status, "FAILED"}

\* a returned run whose trajectory gave no affirmative result: the TEST item
\* is finished FAILED and a turn without any error entry is finished FAILED
C10_Witness ==
    /\ IsRun
    /\ outcome = "returned"
    /\ ~args.force_stopped
    /\ rp.final_status = "FAILED"
    /\ \E t \in Items("TEST") : \E i \in Finishes(t) :
         events[i].ok /\ events[i].kind = "FAILED"
    /\ \E s \in Items("STEP") :
         /\ LogsOf(s, "ERROR") = {}
         /\ \E i \in Finishes(s) : events[i].ok /\ events[i].kind = "FAILED"

=============================================================================
